---- MODULE Spec2Model ----
(***************************************************************************)
(* SafeBox: the scan-document edge function, the UploadZone upload         *)
(* workflow, the DocumentList share/delete operations and the SharePage    *)
(* token resolver.                                                         *)
(*                                                                         *)
(* Strings that the code inspects are modelled by what the code inspects:  *)
(*   - a MIME type is the pair <<major, minor>> ("image/png" is            *)
(*     <<"image","png">>), so startsWith('image/') tests the major part;   *)
(*   - a model reply is a sequence of lexical tokens; "{" and "}" are the  *)
(*     only tokens holding a brace character, "prose" is any brace-free    *)
(*     text, a token ending in ":" is a quoted key followed by its colon.  *)
(***************************************************************************)
EXTENDS Integers, Sequences, FiniteSets, TLC

\* ------------------------------------------------------------------ bounds
\* longest prose prefix / suffix put around the core of a model reply
MaxProse == 1
\* upload attempts started during a run (they may overlap)
MaxUploads == 1
\* 1 ms clock advances during a run
MaxTicks == 1
\* 24 h clock advances during a run
MaxDays == 2
\* generateShareLink invocations during a run (they may overlap)
MaxGens == 2
\* deleteDocument invocations during a run (they may overlap)
MaxDels == 1

VARIABLES
  scanPc,          \* scan-document: "idle" or "responded"
  scanIn,          \* scan-document: the request, environment and gateway answer served last
  scanSent,        \* scan-document: the request made to the model gateway for scanIn
  scanOut,         \* scan-document: the Response returned for scanIn
  user,            \* useAuth().user: "none" or a user id
  scanning,        \* UploadZone state
  uploading,       \* UploadZone state
  currentFile,     \* UploadZone state, "" for null
  showWarning,     \* UploadZone state
  securityWarnings,\* UploadZone state
  att,             \* the uploadFile invocations: position, locals, requests issued;
                   \* scanStatus is the status functions.invoke got (0: no response)
  blobs,           \* storage bucket 'documents': the paths that hold an object
  rows,            \* table 'documents'
  nextId,          \* next row id the database generates
  nextToken,       \* crypto.randomUUID: the next value it returns
  generatingLink,  \* DocumentList state, 0 for null
  gen,             \* the generateShareLink invocations
  del,             \* the deleteDocument invocations
  hist,            \* per document id, the share tokens written to its row, oldest first
  share,           \* SharePage: position and state of the page; replaced and latest
                   \* tell where the token stood in hist when the query ran, late
                   \* that the row's expiry was not after the clock when compared
  now,             \* the clock, in ms
  ticks,           \* 1 ms clock advances so far
  days             \* 24 h clock advances so far

vars == <<scanPc, scanIn, scanSent, scanOut, user, scanning, uploading, currentFile,
          showWarning, securityWarnings, att, blobs, rows, nextId,
          nextToken, generatingLink, gen, del, hist, share, now, ticks, days>>
scanVars == <<scanPc, scanIn, scanSent, scanOut>>
zoneVars == <<user, scanning, uploading, currentFile, showWarning, securityWarnings, att>>
storeVars == <<blobs, rows, nextId>>
uploadVars == <<zoneVars, storeVars>>
shareVars == <<nextToken, generatingLink, gen, del, hist, share>>
clockVars == <<now, ticks, days>>

\* ------------------------------------------------------- JSON values
\* every JSON value has the same record shape so that values compare
JNull == [kind |-> "null", b |-> FALSE, keys |-> <<>>, elems |-> <<>>]
JBool(x) == [kind |-> "bool", b |-> x, keys |-> <<>>, elems |-> <<>>]
JStr == [kind |-> "str", b |-> FALSE, keys |-> <<>>, elems |-> <<>>]
JArr(es) == [kind |-> "arr", b |-> FALSE, keys |-> <<>>, elems |-> es]
JObj(ks, es) == [kind |-> "obj", b |-> FALSE, keys |-> ks, elems |-> es]

\* obj[key] of JavaScript: the member's value, or undefined (JNull, found FALSE)
HasKey(o, k) == o.kind = "obj" /\ \E i \in 1..Len(o.keys) : o.keys[i] = k
GetKey(o, k) ==
  IF HasKey(o, k) THEN o.elems[CHOOSE i \in 1..Len(o.keys) : o.keys[i] = k]
  ELSE JNull

\* an object member is added; a repeated key keeps its place and takes the new value
PutKey(ks, es, k, v) ==
  IF \E i \in 1..Len(ks) : ks[i] = k
  THEN LET i == CHOOSE j \in 1..Len(ks) : ks[j] = k
       IN <<ks, [es EXCEPT ![i] = v]>>
  ELSE <<Append(ks, k), Append(es, v)>>

KeyTokens == {"isSafe:", "warnings:", "type:", "error:"}
KeyName(t) ==
  CASE t = "isSafe:" -> "isSafe"
    [] t = "warnings:" -> "warnings"
    [] t = "type:" -> "type"
    [] OTHER -> "error"

ParseFail == [ok |-> FALSE, val |-> JNull, next |-> 0]
ParseOk(v, n) == [ok |-> TRUE, val |-> v, next |-> n]

RECURSIVE ParseValue(_, _)
RECURSIVE ParseElements(_, _, _)
RECURSIVE ParseMembers(_, _, _, _)

\* JSON.parse, recursive descent over the tokens from position i
ParseValue(toks, i) ==
  IF i > Len(toks) THEN ParseFail
  ELSE CASE toks[i] = "true" -> ParseOk(JBool(TRUE), i + 1)
         [] toks[i] = "false" -> ParseOk(JBool(FALSE), i + 1)
         [] toks[i] = "str" -> ParseOk(JStr, i + 1)
         [] toks[i] = "[" ->
              IF i + 1 <= Len(toks) /\ toks[i + 1] = "]"
              THEN ParseOk(JArr(<<>>), i + 2)
              ELSE ParseElements(toks, i + 1, <<>>)
         [] toks[i] = "{" ->
              IF i + 1 <= Len(toks) /\ toks[i + 1] = "}"
              THEN ParseOk(JObj(<<>>, <<>>), i + 2)
              ELSE ParseMembers(toks, i + 1, <<>>, <<>>)
         [] OTHER -> ParseFail

ParseElements(toks, i, acc) ==
  LET r == ParseValue(toks, i) IN
  IF ~r.ok \/ r.next > Len(toks) THEN ParseFail
  ELSE IF toks[r.next] = "]" THEN ParseOk(JArr(Append(acc, r.val)), r.next + 1)
  ELSE IF toks[r.next] = "," THEN ParseElements(toks, r.next + 1, Append(acc, r.val))
  ELSE ParseFail

ParseMembers(toks, i, ks, es) ==
  IF i > Len(toks) \/ toks[i] \notin KeyTokens THEN ParseFail
  ELSE LET r == ParseValue(toks, i + 1) IN
       IF ~r.ok \/ r.next > Len(toks) THEN ParseFail
       ELSE LET kv == PutKey(ks, es, KeyName(toks[i]), r.val) IN
            IF toks[r.next] = "}" THEN ParseOk(JObj(kv[1], kv[2]), r.next + 1)
            ELSE IF toks[r.next] = "," THEN ParseMembers(toks, r.next + 1, kv[1], kv[2])
            ELSE ParseFail

\* JSON.parse(text): the whole text must be one value, else SyntaxError (ok FALSE)
JSONParse(toks) ==
  LET r == ParseValue(toks, 1) IN
  IF r.ok /\ r.next = Len(toks) + 1 THEN r ELSE ParseFail

\* ------------------------------------------------ scan-document function
DefaultVerdict == JObj(<<"isSafe", "warnings">>, <<JBool(TRUE), JArr(<<>>)>>)
ErrorBody == JObj(<<"error", "isSafe", "warnings">>, <<JStr, JBool(TRUE), JArr(<<>>)>>)

\* the fallback text '{"isSafe": true, "warnings": []}' of line 104
DefaultReplyText == <<"{", "isSafe:", "true", ",", "warnings:", "[", "]", "}">>

\* aiResponse.match(/\{[\s\S]*\}/): leftmost "{" up to the last "}" after it
BracePositions(toks, c) == {i \in 1..Len(toks) : toks[i] = c}
Min(S) == CHOOSE x \in S : \A y \in S : x <= y
Max(S) == CHOOSE x \in S : \A y \in S : x >= y
HasJsonMatch(toks) ==
  /\ BracePositions(toks, "{") # {}
  /\ BracePositions(toks, "}") # {}
  /\ Min(BracePositions(toks, "{")) < Max(BracePositions(toks, "}"))
JsonMatch(toks) ==
  SubSeq(toks, Min(BracePositions(toks, "{")), Max(BracePositions(toks, "}")))

\* ExtractResult with the else branch of line 115 left out: result stays undefined
ExtractResult_NoElse(content) ==
  LET aiResponse == IF content.kind = "absent" \/ content.toks = <<>>
                    THEN DefaultReplyText ELSE content.toks IN
  IF content.kind = "nonstring" THEN DefaultVerdict
  ELSE IF HasJsonMatch(aiResponse)
       THEN LET p == JSONParse(JsonMatch(aiResponse)) IN
            IF p.ok THEN p.val ELSE DefaultVerdict
       ELSE JNull

\* lines 109-121: the verdict extracted from the model's reply text.
\* content.kind: "absent" (no choices / empty text), "string", or "nonstring"
\* (a truthy value with no match method: the call throws inside the try)
ExtractResult(content) ==
  LET aiResponse == IF content.kind = "absent" \/ content.toks = <<>>
                    THEN DefaultReplyText ELSE content.toks IN
  IF content.kind = "nonstring" THEN DefaultVerdict
  ELSE IF HasJsonMatch(aiResponse)
       THEN LET p == JSONParse(JsonMatch(aiResponse)) IN
            IF p.ok THEN p.val ELSE DefaultVerdict
       ELSE DefaultVerdict

isImage(fileType) == fileType[1] = "image"

\* lines 14-75: the one request made to the model gateway, if the handler gets
\* that far; the image prompt asks for the fixed answer {"isSafe": true, "warnings": []}
NotSent == [sent |-> FALSE, systemPrompt |-> "", userContent |-> ""]
GatewayRequest(req, apiKey) ==
  IF req.method = "OPTIONS" \/ ~req.bodyOK \/ ~apiKey \/ ~req.hasFileType THEN NotSent
  ELSE [sent |-> TRUE,
        systemPrompt |-> IF isImage(req.fileType) THEN "image_answer_safe"
                         ELSE "scan_for_leaks",
        userContent |-> IF isImage(req.fileType) THEN "fileName" ELSE "content"]

Response(st, bd) == [status |-> st, hasBody |-> TRUE, body |-> bd]

\* ServeHandler with the 402 branch of lines 88-97 left out
ServeHandler_No402(req, apiKey, gw) ==
  IF req.method = "OPTIONS" THEN [status |-> 200, hasBody |-> FALSE, body |-> JNull]
  ELSE IF ~req.bodyOK THEN Response(500, ErrorBody)
  ELSE IF ~apiKey THEN Response(500, ErrorBody)
  ELSE IF ~req.hasFileType THEN Response(500, ErrorBody)
  ELSE IF gw.kind = "throw" THEN Response(500, ErrorBody)
  ELSE IF gw.status \notin 200..299
       THEN IF gw.status = 429 THEN Response(429, ErrorBody)
            ELSE Response(500, ErrorBody)
  ELSE IF ~gw.jsonOK THEN Response(500, ErrorBody)
  ELSE Response(200, ExtractResult(gw.content))

\* the whole serve handler, lines 8-137.
\*   req: [method, bodyOK, hasFileType, fileType]   env: API key configured
\*   gw : [kind "throw"|"answer", status, jsonOK, content]
ServeHandler(req, apiKey, gw) ==
  IF req.method = "OPTIONS" THEN [status |-> 200, hasBody |-> FALSE, body |-> JNull]
  ELSE IF ~req.bodyOK THEN Response(500, ErrorBody)
  ELSE IF ~apiKey THEN Response(500, ErrorBody)
  ELSE IF ~req.hasFileType THEN Response(500, ErrorBody)
  ELSE IF gw.kind = "throw" THEN Response(500, ErrorBody)
  ELSE IF gw.status \notin 200..299
       THEN IF gw.status = 429 THEN Response(429, ErrorBody)
            ELSE IF gw.status = 402 THEN Response(402, ErrorBody)
            ELSE Response(500, ErrorBody)
  ELSE IF ~gw.jsonOK THEN Response(500, ErrorBody)
  ELSE Response(200, ExtractResult(gw.content))

\* ------------------------------------------------ inputs of the scan function
ProseTokens == {"prose", "{", "}"}
ProseSeqs == UNION {[1..n -> ProseTokens] : n \in 0..MaxProse}

SafeText == DefaultReplyText
UnsafeText ==
  <<"{", "isSafe:", "false", ",", "warnings:", "[", "{", "type:", "str", "}", "]", "}">>
UnsafeNoWarnText == <<"{", "isSafe:", "false", ",", "warnings:", "[", "]", "}">>
UnsafeOnlyText == <<"{", "isSafe:", "false", "}">>
EmptyObjText == <<"{", "}">>
TruncatedText ==
  <<"{", "isSafe:", "false", ",", "warnings:", "[", "{", "type:", "str", "}", "]">>
TrailingCommaText == <<"{", "isSafe:", "false", ",", "}">>

\* texts that are one JSON object, texts that are broken JSON, and no text
ObjectTexts == {SafeText, UnsafeText, UnsafeNoWarnText, UnsafeOnlyText, EmptyObjText}
BrokenTexts == {TruncatedText, TrailingCommaText}
CoreTexts == ObjectTexts \cup BrokenTexts \cup {<<>>}

ReplyTexts == {pre \o core \o post : pre \in ProseSeqs, core \in CoreTexts, post \in ProseSeqs}

Contents ==
  {[kind |-> "absent", toks |-> <<>>], [kind |-> "nonstring", toks |-> <<>>]}
  \cup {[kind |-> "string", toks |-> t] : t \in ReplyTexts}

NoContent == [kind |-> "absent", toks |-> <<>>]
GatewayAnswers ==
  {[kind |-> "throw", status |-> 0, jsonOK |-> FALSE, content |-> NoContent]}
  \cup {[kind |-> "answer", status |-> st, jsonOK |-> FALSE, content |-> NoContent] :
           st \in {429, 402, 500, 503}}
  \cup {[kind |-> "answer", status |-> 200, jsonOK |-> FALSE, content |-> NoContent]}
  \cup {[kind |-> "answer", status |-> 200, jsonOK |-> TRUE, content |-> c] : c \in Contents}

\* MIME types a file may declare
FileTypes ==
  {<<"application", "pdf">>, <<"text", "plain">>, <<"image", "jpeg">>,
   <<"image", "jpg">>, <<"image", "png">>, <<"image", "gif">>, <<"application", "zip">>}

ScanRequests ==
  {[method |-> "OPTIONS", bodyOK |-> FALSE, hasFileType |-> FALSE, fileType |-> <<"", "">>]}
  \cup {[method |-> "POST", bodyOK |-> FALSE, hasFileType |-> FALSE, fileType |-> <<"", "">>]}
  \cup {[method |-> "POST", bodyOK |-> TRUE, hasFileType |-> FALSE, fileType |-> <<"", "">>]}
  \cup {[method |-> "POST", bodyOK |-> TRUE, hasFileType |-> TRUE, fileType |-> t] :
           t \in FileTypes}

NoScanIn ==
  [req |-> [method |-> "OPTIONS", bodyOK |-> FALSE, hasFileType |-> FALSE,
            fileType |-> <<"", "">>],
   apiKey |-> FALSE,
   gw |-> [kind |-> "throw", status |-> 0, jsonOK |-> FALSE, content |-> NoContent]]
NoScanOut == [status |-> 0, hasBody |-> FALSE, body |-> JNull]

\* ------------------------------------------------ scan-document as a machine
\* one request is served: the handler runs to its Response
Serve ==
  /\ scanPc = "idle"
  /\ \E req \in ScanRequests, apiKey \in BOOLEAN, gw \in GatewayAnswers :
       /\ scanIn' = [req |-> req, apiKey |-> apiKey, gw |-> gw]
       /\ scanSent' = GatewayRequest(req, apiKey)
       /\ scanOut' = ServeHandler(req, apiKey, gw)
  /\ scanPc' = "responded"
  /\ UNCHANGED <<uploadVars, shareVars, clockVars>>

\* the Response is sent; the function keeps no state between requests
ScanDone ==
  /\ scanPc = "responded"
  /\ scanPc' = "idle"
  /\ scanIn' = NoScanIn
  /\ scanSent' = NotSent
  /\ scanOut' = NoScanOut
  /\ UNCHANGED <<uploadVars, shareVars, clockVars>>

ScanInit ==
  /\ scanPc = "idle"
  /\ scanIn = NoScanIn
  /\ scanSent = NotSent
  /\ scanOut = NoScanOut

\* ------------------------------------------------ dates
DayMs == 24 * 60 * 60 * 1000
\* Date.prototype.toISOString: the calendar day and the time of day, to the ms
toISOString(t) == [day |-> t \div DayMs, ms |-> t % DayMs]
\* a null column
NullDate == [day |-> -1, ms |-> 0]
\* new Date(value).getTime(): null is the epoch
DateOf(iso) == IF iso = NullDate THEN 0 ELSE iso.day * DayMs + iso.ms

\* ------------------------------------------------ UploadZone
MaxFileSize == 10 * 1024 * 1024
\* acceptedTypes with every image type let through
acceptedTypes_AnyImage ==
  {<<"application", "pdf">>, <<"text", "plain">>, <<"image", "jpeg">>,
   <<"image", "jpg">>, <<"image", "png">>, <<"image", "gif">>}
\* line 34
acceptedTypes ==
  {<<"application", "pdf">>, <<"text", "plain">>, <<"image", "jpeg">>,
   <<"image", "jpg">>, <<"image", "png">>}
\* tooLarge with >= for >
tooLarge_Ge(file) == file.size >= MaxFileSize
\* line 99
tooLarge(file) == file.size > MaxFileSize
FileNames == {"a.txt"}
\* every type at the size limit, and an accepted and a refused type above it
Files ==
  [name : FileNames, type : FileTypes, size : {MaxFileSize}]
  \cup [name : FileNames, type : {<<"text", "plain">>, <<"image", "gif">>},
        size : {MaxFileSize + 1}]
Users == {"u1"}
NoFile == [name |-> "", type |-> <<"", "">>, size |-> 0]
Uploads == 1..MaxUploads

\* readFileContent, lines 46-59: what is put in the scan request as content
readFileContent(file) ==
  IF file.type = <<"text", "plain">> THEN [kind |-> "text", of |-> file.name]
  ELSE IF file.type = <<"application", "pdf">> THEN [kind |-> "pdf_base64_5000", of |-> file.name]
  ELSE [kind |-> "image_file_name", of |-> file.name]
NoFileContent == [kind |-> "", of |-> ""]

\* JavaScript truthiness of a JSON value, undefined being JNull
Truthy(v) ==
  CASE v.kind = "bool" -> v.b
    [] v.kind = "null" -> FALSE
    [] OTHER -> TRUE

\* v.length > 0 of line 115: "throws" when v is undefined
LengthPositive(v) ==
  CASE v.kind = "null" -> "throws"
    [] v.kind = "arr" -> IF Len(v.elems) > 0 THEN "yes" ELSE "no"
    [] v.kind = "str" -> "yes"
    [] OTHER -> "no"

\* Gate with length > 1 for length > 0
Gate_MoreThanOne(scanResult) ==
  IF Truthy(GetKey(scanResult, "isSafe")) THEN "proceed"
  ELSE IF GetKey(scanResult, "warnings").kind = "null" THEN "throws"
  ELSE IF Len(GetKey(scanResult, "warnings").elems) > 1 THEN "block"
  ELSE "proceed"

\* line 115, the gate: "block", "proceed", or "throws" (a TypeError, caught at 152)
Gate(scanResult) ==
  IF Truthy(GetKey(scanResult, "isSafe")) THEN "proceed"
  ELSE CASE LengthPositive(GetKey(scanResult, "warnings")) = "yes" -> "block"
         [] LengthPositive(GetKey(scanResult, "warnings")) = "no" -> "proceed"
         [] OTHER -> "throws"

\* scanDocument returning the body of an error response
scanDocument_PassBody(transportOK, resp) ==
  IF ~transportOK THEN DefaultVerdict
  ELSE resp.body

\* supabase.functions.invoke as scanDocument sees it, lines 64-77: a request
\* that does not reach the function, or a response outside 2xx, is an error
scanDocument(transportOK, resp) ==
  IF ~transportOK \/ resp.status \notin 200..299 THEN DefaultVerdict
  ELSE resp.body

\* what the function can answer to the request UploadZone makes for a file of
\* type t, over every environment and gateway answer
UploadScanRequest(t) ==
  [method |-> "POST", bodyOK |-> TRUE, hasFileType |-> TRUE, fileType |-> t]
ServeResponses ==
  [t \in FileTypes |->
     {ServeHandler(UploadScanRequest(t), apiKey, gw) :
        apiKey \in BOOLEAN, gw \in GatewayAnswers}]

\* line 127
filePath(u, t, file) == <<u, t, file.name>>
NoPath == <<"", 0, "">>

NewAttempt ==
  [pc |-> "idle", file |-> NoFile, content |-> NoFileContent,
   scanCalls |-> 0, gotVerdict |-> FALSE, scanStatus |-> -1, scanResult |-> JNull,
   path |-> NoPath, storageCalls |-> 0, insertCalls |-> 0, outcome |-> ""]

\* lines 136-142 and the table's defaults
NewRow(id, u, file, path, t) ==
  [id |-> id, user_id |-> u, file_name |-> file.name, file_type |-> file.type,
   file_size |-> file.size, storage_path |-> path, is_safe |-> TRUE,
   share_token |-> 0, share_expires_at |-> NullDate, created_at |-> t]

\* the finally block, lines 159-163
Finally ==
  /\ uploading' = FALSE
  /\ scanning' = FALSE
  /\ currentFile' = ""

\* uploadFile up to its first await, lines 80-113
uploadFile(a, file) ==
  /\ att[a].pc = "idle"
  /\ IF user = "none"
     THEN /\ att' = [att EXCEPT ![a].pc = "done", ![a].file = file, ![a].outcome = "not_authenticated"]
          /\ UNCHANGED <<scanning, currentFile>>
     ELSE IF file.type \notin acceptedTypes
     THEN /\ att' = [att EXCEPT ![a].pc = "done", ![a].file = file, ![a].outcome = "invalid_type"]
          /\ UNCHANGED <<scanning, currentFile>>
     ELSE IF tooLarge(file)
     THEN /\ att' = [att EXCEPT ![a].pc = "done", ![a].file = file, ![a].outcome = "too_large"]
          /\ UNCHANGED <<scanning, currentFile>>
     ELSE /\ currentFile' = file.name
          /\ scanning' = TRUE
          /\ att' = [att EXCEPT ![a].pc = "read", ![a].file = file]
  /\ UNCHANGED <<user, uploading, showWarning, securityWarnings, blobs, rows, nextId,
                 scanVars, shareVars, clockVars>>

\* lines 166-174: a drop is accepted whatever the flags are
handleDrop(a) == \E file \in Files : uploadFile(a, file)

\* lines 176-182, the input being enabled (line 200)
handleFileSelect(a) ==
  /\ ~(uploading \/ scanning)
  /\ \E file \in Files : uploadFile(a, file)

\* lines 62-70: the content is read and the scan request is issued
ReadReturn(a) ==
  /\ att[a].pc = "read"
  /\ att' = [att EXCEPT ![a].pc = "scan", ![a].content = readFileContent(att[a].file),
                        ![a].scanCalls = @ + 1]
  /\ UNCHANGED <<user, scanning, uploading, currentFile, showWarning, securityWarnings,
                 blobs, rows, nextId, scanVars, shareVars, clockVars>>

\* line 62 rejects (the file cannot be read, or the spread of line 54 overflows
\* the stack): caught at 152, then the finally block
ReadThrows(a) ==
  /\ att[a].pc = "read"
  /\ att' = [att EXCEPT ![a].pc = "done", ![a].outcome = "failed"]
  /\ Finally
  /\ UNCHANGED <<user, showWarning, securityWarnings, blobs, rows, nextId,
                 scanVars, shareVars, clockVars>>

\* lines 113-130: the scan answers, the gate decides, the blob upload is issued
ScanReturn(a) ==
  /\ att[a].pc = "scan"
  /\ \E transportOK \in BOOLEAN, resp \in ServeResponses[att[a].file.type] :
       LET scanResult == scanDocument(transportOK, resp)
           st == IF transportOK THEN resp.status ELSE 0
           g == Gate(scanResult)
       IN IF g = "block"
          THEN /\ securityWarnings' = GetKey(scanResult, "warnings")
               /\ showWarning' = TRUE
               /\ Finally
               /\ att' = [att EXCEPT ![a].pc = "done", ![a].gotVerdict = TRUE,
                                     ![a].scanStatus = st,
                                     ![a].scanResult = scanResult, ![a].outcome = "blocked"]
          ELSE IF g = "throws"
          THEN /\ Finally
               /\ att' = [att EXCEPT ![a].pc = "done", ![a].gotVerdict = TRUE,
                                     ![a].scanStatus = st,
                                     ![a].scanResult = scanResult, ![a].outcome = "failed"]
               /\ UNCHANGED <<showWarning, securityWarnings>>
          ELSE /\ scanning' = FALSE
               /\ uploading' = TRUE
               /\ att' = [att EXCEPT ![a].pc = "upload", ![a].gotVerdict = TRUE,
                                     ![a].scanStatus = st,
                                     ![a].scanResult = scanResult,
                                     ![a].path = filePath(user, now, att[a].file),
                                     ![a].storageCalls = @ + 1]
               /\ UNCHANGED <<currentFile, showWarning, securityWarnings>>
  /\ UNCHANGED <<user, blobs, rows, nextId, scanVars, shareVars, clockVars>>

\* StorageReturn without the throw of line 132: the insert is issued after a
\* refused blob upload as well
StorageReturn_InsertAnyway(a) ==
  /\ att[a].pc = "upload"
  /\ \E ok \in BOOLEAN :
       /\ blobs' = IF ok THEN blobs \cup {att[a].path} ELSE blobs
       /\ att' = [att EXCEPT ![a].pc = "insert", ![a].insertCalls = @ + 1]
       /\ UNCHANGED <<scanning, uploading, currentFile>>
  /\ UNCHANGED <<user, showWarning, securityWarnings, rows, nextId, scanVars, shareVars, clockVars>>

\* lines 128-142: the blob store answers; on success the row insert is issued.
\* An upload to a path that holds an object is refused (no upsert option is given).
StorageReturn(a) ==
  /\ att[a].pc = "upload"
  /\ \E ok \in BOOLEAN :
       IF ok /\ att[a].path \notin blobs
       THEN /\ blobs' = blobs \cup {att[a].path}
            /\ att' = [att EXCEPT ![a].pc = "insert", ![a].insertCalls = @ + 1]
            /\ UNCHANGED <<scanning, uploading, currentFile>>
       ELSE /\ att' = [att EXCEPT ![a].pc = "done", ![a].outcome = "failed"]
            /\ Finally
            /\ UNCHANGED blobs
  /\ UNCHANGED <<user, showWarning, securityWarnings, rows, nextId, scanVars, shareVars, clockVars>>

\* lines 135-163: the database answers
InsertReturn(a) ==
  /\ att[a].pc = "insert"
  /\ \E ok \in BOOLEAN :
       IF ok
       THEN /\ rows' = rows \cup {NewRow(nextId, user, att[a].file, att[a].path, now)}
            /\ nextId' = nextId + 1
            /\ att' = [att EXCEPT ![a].pc = "done", ![a].outcome = "complete"]
       ELSE /\ att' = [att EXCEPT ![a].pc = "done", ![a].outcome = "failed"]
            /\ UNCHANGED <<rows, nextId>>
  /\ Finally
  /\ UNCHANGED <<user, showWarning, securityWarnings, blobs, scanVars, shareVars, clockVars>>

\* line 258: the warning modal is closed
onClose ==
  /\ showWarning
  /\ showWarning' = FALSE
  /\ UNCHANGED <<user, scanning, uploading, currentFile, securityWarnings, att, blobs,
                 rows, nextId, scanVars, shareVars, clockVars>>

\* ------------------------------------------------ DocumentList
\* randomUUID returning one value every time
randomUUID_Fixed(n) == 1
\* crypto.randomUUID(): a value never returned before (n counts the calls)
randomUUID(n) == n

Gens == 1..MaxGens
NewGen == [pc |-> "idle", docId |-> 0, shareToken |-> 0, expiresAt |-> 0, outcome |-> ""]

\* updateShare without the .eq('id', docId) filter of line 54
updateShare_AllRows(rs, docId, token, iso) ==
  {[r EXCEPT !.share_token = token, !.share_expires_at = iso] : r \in rs}

\* the update of lines 48-54 as the database applies it: every row with the id
updateShare(rs, docId, token, iso) ==
  {IF r.id = docId THEN [r EXCEPT !.share_token = token, !.share_expires_at = iso] ELSE r :
     r \in rs}

\* lines 42-54: the token and the expiry are made and the update is sent
generateShareLink(g) ==
  /\ gen[g].pc = "idle"
  /\ \E r \in rows :
       /\ generatingLink' = r.id
       /\ gen' = [gen EXCEPT ![g] = [pc |-> "update", docId |-> r.id,
                                    shareToken |-> randomUUID(nextToken),
                                    expiresAt |-> now + DayMs, outcome |-> ""]]
  /\ nextToken' = nextToken + 1
  /\ UNCHANGED <<del, hist, share, uploadVars, scanVars, clockVars>>

\* the database executes the update, or refuses it
GenUpdate(g) ==
  /\ gen[g].pc = "update"
  /\ \E ok \in BOOLEAN :
       IF ok
       THEN /\ rows' = updateShare(rows, gen[g].docId, gen[g].shareToken,
                                   toISOString(gen[g].expiresAt))
            /\ hist' = IF \E r \in rows : r.id = gen[g].docId
                       THEN [hist EXCEPT ![gen[g].docId] = Append(@, gen[g].shareToken)]
                       ELSE hist
            /\ gen' = [gen EXCEPT ![g].pc = "updated"]
       ELSE /\ gen' = [gen EXCEPT ![g].pc = "refused"]
            /\ UNCHANGED <<rows, hist>>
  /\ UNCHANGED <<nextToken, generatingLink, del, share, zoneVars, blobs, nextId,
                 scanVars, clockVars>>

\* lines 56-75: the answer arrives; the clipboard write may be refused
GenReturn(g) ==
  /\ gen[g].pc \in {"updated", "refused"}
  /\ \E clipboardOK \in BOOLEAN :
       gen' = [gen EXCEPT ![g] = [NewGen EXCEPT !.pc = "done",
                                    !.outcome = IF gen[g].pc = "updated" /\ clipboardOK
                                                THEN "created" ELSE "failed"]]
  /\ generatingLink' = 0
  /\ UNCHANGED <<nextToken, del, hist, share, uploadVars, scanVars, clockVars>>

Dels == 1..MaxDels
NewDel ==
  [pc |-> "idle", doc |-> [id |-> 0, storage_path |-> NoPath],
   removeCalls |-> 0, removed |-> FALSE, deleteCalls |-> 0, outcome |-> ""]

\* lines 89-94: a document of the list is deleted; the blob removal is sent
deleteDocument(d) ==
  /\ del[d].pc = "idle"
  /\ \E r \in rows :
       del' = [del EXCEPT ![d].pc = "remove",
                          ![d].doc = [id |-> r.id, storage_path |-> r.storage_path],
                          ![d].removeCalls = @ + 1]
  /\ UNCHANGED <<nextToken, generatingLink, gen, hist, share, uploadVars, scanVars, clockVars>>

\* DelStorageReturn without the throw of line 96: the row delete is sent after
\* a refused blob removal as well
DelStorageReturn_NoThrow(d) ==
  /\ del[d].pc = "remove"
  /\ \E ok \in BOOLEAN :
       /\ blobs' = IF ok THEN blobs \ {del[d].doc.storage_path} ELSE blobs
       /\ del' = [del EXCEPT ![d].pc = "delete", ![d].removed = ok,
                             ![d].deleteCalls = @ + 1]
  /\ UNCHANGED <<nextToken, generatingLink, gen, hist, share, zoneVars, rows, nextId,
                 scanVars, clockVars>>

\* lines 92-102: the blob store answers; on success the row delete is sent.
\* Removing a path that holds no object is not an error.
DelStorageReturn(d) ==
  /\ del[d].pc = "remove"
  /\ \E ok \in BOOLEAN :
       IF ok
       THEN /\ blobs' = blobs \ {del[d].doc.storage_path}
            /\ del' = [del EXCEPT ![d].pc = "delete", ![d].removed = TRUE,
                                  ![d].deleteCalls = @ + 1]
       ELSE /\ del' = [del EXCEPT ![d].pc = "done", ![d].outcome = "failed"]
            /\ UNCHANGED blobs
  /\ UNCHANGED <<nextToken, generatingLink, gen, hist, share, zoneVars, rows, nextId,
                 scanVars, clockVars>>

\* lines 99-118: the database answers the delete of the rows with the id
DelRowReturn(d) ==
  /\ del[d].pc = "delete"
  /\ \E ok \in BOOLEAN :
       IF ok
       THEN /\ rows' = {r \in rows : r.id # del[d].doc.id}
            /\ del' = [del EXCEPT ![d].pc = "done", ![d].outcome = "deleted"]
       ELSE /\ del' = [del EXCEPT ![d].pc = "done", ![d].outcome = "failed"]
            /\ UNCHANGED rows
  /\ UNCHANGED <<nextToken, generatingLink, gen, hist, share, zoneVars, blobs, nextId,
                 scanVars, clockVars>>

\* ------------------------------------------------ SharePage
Tokens == 0..(MaxGens + 1)
NoRow == NewRow(0, "", NoFile, NoPath, 0)
NoShare ==
  [pc |-> "idle", token |-> 0, found |-> FALSE, data |-> NoRow,
   replaced |-> FALSE, latest |-> FALSE, late |-> FALSE, loading |-> TRUE, error |-> "", document |-> NoRow]

\* line 158
isExpired(iso, t) == DateOf(iso) < t

\* .eq('share_token', token).single(): the row, if exactly one row matches
single(rs, token) ==
  LET m == {r \in rs : r.share_token = token} IN
  IF Cardinality(m) = 1 THEN [found |-> TRUE, data |-> CHOOSE r \in m : TRUE]
  ELSE [found |-> FALSE, data |-> NoRow]

\* the page is opened at /share/<token> (0: no token in the URL): lines 139-150,
\* the query runs in the database
fetchDocument ==
  /\ share.pc \in {"idle", "done"}
  /\ \E token \in Tokens :
       IF token = 0
       THEN share' = [NoShare EXCEPT !.pc = "done", !.loading = FALSE,
                                     !.error = "Invalid share link"]
       ELSE LET q == single(rows, token) IN
            share' = [NoShare EXCEPT !.pc = "query", !.token = token,
                         !.found = q.found, !.data = q.data,
                         !.replaced = \E d \in DOMAIN hist : \E i \in 1..(Len(hist[d]) - 1) :
                                        hist[d][i] = token,
                         !.latest = \E d \in DOMAIN hist :
                                      Len(hist[d]) > 0 /\ hist[d][Len(hist[d])] = token]
  /\ UNCHANGED <<nextToken, generatingLink, gen, del, hist, uploadVars, scanVars, clockVars>>

\* lines 152-165: the answer arrives and is compared with the clock
FetchReturn ==
  /\ share.pc = "query"
  /\ share' =
       IF ~share.found
       THEN [share EXCEPT !.pc = "done", !.loading = FALSE,
                          !.error = "Document not found or link has expired"]
       ELSE IF isExpired(share.data.share_expires_at, now)
       THEN [share EXCEPT !.pc = "done", !.loading = FALSE, !.data = NoRow,
                          !.late = TRUE,
                          !.error = "This share link has expired"]
       ELSE [share EXCEPT !.pc = "done", !.loading = FALSE, !.data = NoRow,
                          !.late = DateOf(share.data.share_expires_at) <= now,
                          !.document = share.data]
  /\ UNCHANGED <<nextToken, generatingLink, gen, del, hist, uploadVars, scanVars, clockVars>>

\* lines 203-236 and the document card after them: what the page shows
Render(s) ==
  IF s.loading THEN [view |-> "loading", heading |-> "", message |-> ""]
  ELSE IF s.error # "" THEN [view |-> "error", heading |-> "Link Unavailable", message |-> s.error]
  ELSE [view |-> "document", heading |-> "", message |-> ""]

\* ------------------------------------------------ time
\* 1 ms passes
Tick ==
  /\ ticks < MaxTicks
  /\ now' = now + 1
  /\ ticks' = ticks + 1
  /\ UNCHANGED <<uploadVars, scanVars, shareVars, days>>

\* 24 h pass
TickDay ==
  /\ days < MaxDays
  /\ now' = now + DayMs
  /\ days' = days + 1
  /\ UNCHANGED <<uploadVars, scanVars, shareVars, ticks>>

\* ------------------------------------------------ specifications
UploadInit ==
  /\ user \in {"none"} \cup Users
  /\ scanning = FALSE
  /\ uploading = FALSE
  /\ currentFile = ""
  /\ showWarning = FALSE
  /\ securityWarnings = JArr(<<>>)
  /\ att = [a \in Uploads |-> NewAttempt]
  /\ blobs = {}
  /\ rows = {}
  /\ nextId = 1

ShareInit ==
  /\ nextToken = 1
  /\ generatingLink = 0
  /\ gen = [g \in Gens |-> NewGen]
  /\ del = [d \in Dels |-> NewDel]
  /\ hist = [d \in 1..MaxUploads |-> <<>>]
  /\ share = NoShare

ClockInit == now = 0 /\ ticks = 0 /\ days = 0

Init == ScanInit /\ UploadInit /\ ShareInit /\ ClockInit

\* the scan-document function alone
NextScan == Serve \/ ScanDone
SpecScan == Init /\ [][NextScan]_vars

\* the upload workflow, the function answering inside ScanReturn
NextUpload ==
  \/ \E a \in Uploads : handleDrop(a)
  \/ \E a \in Uploads : handleFileSelect(a)
  \/ \E a \in Uploads : ReadReturn(a)
  \/ \E a \in Uploads : ReadThrows(a)
  \/ \E a \in Uploads : ScanReturn(a)
  \/ \E a \in Uploads : StorageReturn(a)
  \/ \E a \in Uploads : InsertReturn(a)
  \/ onClose
  \/ Tick
SpecUpload == Init /\ [][NextUpload]_vars

\* two uploadFile invocations of one signed-in user, free to overlap: a drop is
\* accepted while an attempt is in flight
OverlapUploads == {1, 2}
InitOverlap ==
  /\ ScanInit /\ ShareInit /\ ClockInit
  /\ user = "u1" /\ scanning = FALSE /\ uploading = FALSE /\ currentFile = ""
  /\ showWarning = FALSE /\ securityWarnings = JArr(<<>>)
  /\ att = [a \in OverlapUploads |-> NewAttempt]
  /\ blobs = {} /\ rows = {} /\ nextId = 1
NextOverlap ==
  \/ \E a \in OverlapUploads : handleDrop(a)
  \/ \E a \in OverlapUploads : handleFileSelect(a)
  \/ \E a \in OverlapUploads : ReadReturn(a)
  \/ \E a \in OverlapUploads : ReadThrows(a)
  \/ \E a \in OverlapUploads : ScanReturn(a)
  \/ \E a \in OverlapUploads : StorageReturn(a)
  \/ \E a \in OverlapUploads : InsertReturn(a)
  \/ onClose
  \/ Tick
SpecOverlap == InitOverlap /\ [][NextOverlap]_vars

\* the document that a completed upload of user u1 leaves behind
SeedFile(n) == [name |-> "a.txt", type |-> <<"text", "plain">>, size |-> n]
SeedIds == {1}
SeedRows ==
  {NewRow(d, "u1", SeedFile(d), filePath("u1", d, SeedFile(d)), d) : d \in SeedIds}

\* sharing: the document exists, links are generated and resolved as time passes
InitShare ==
  /\ ScanInit /\ ShareInit
  /\ user = "u1" /\ scanning = FALSE /\ uploading = FALSE /\ currentFile = ""
  /\ showWarning = FALSE /\ securityWarnings = JArr(<<>>)
  /\ att = [a \in Uploads |-> NewAttempt]
  /\ rows = SeedRows
  /\ blobs = {r.storage_path : r \in SeedRows}
  /\ nextId = 2
  /\ now = 1 /\ ticks = 0 /\ days = 0
NextShare ==
  \/ \E g \in Gens : generateShareLink(g)
  \/ \E g \in Gens : GenUpdate(g)
  \/ \E g \in Gens : GenReturn(g)
  \/ fetchDocument
  \/ FetchReturn
  \/ TickDay
SpecShare == InitShare /\ [][NextShare]_vars

\* two documents of the list: share links are generated for them as time passes
DocIds == {1, 2}
DocRows ==
  {NewRow(d, "u1", SeedFile(d), filePath("u1", d, SeedFile(d)), d) : d \in DocIds}
InitFrame ==
  /\ ScanInit
  /\ user = "u1" /\ scanning = FALSE /\ uploading = FALSE /\ currentFile = ""
  /\ showWarning = FALSE /\ securityWarnings = JArr(<<>>)
  /\ att = [a \in Uploads |-> NewAttempt]
  /\ rows = DocRows
  /\ blobs = {r.storage_path : r \in DocRows}
  /\ nextId = 3
  /\ nextToken = 1 /\ generatingLink = 0
  /\ gen = [g \in Gens |-> NewGen]
  /\ del = [d \in Dels |-> NewDel]
  /\ hist = [d \in DocIds |-> <<>>]
  /\ share = NoShare
  /\ now = 1 /\ ticks = 0 /\ days = 0
NextFrame ==
  \/ \E g \in Gens : generateShareLink(g)
  \/ \E g \in Gens : GenUpdate(g)
  \/ \E g \in Gens : GenReturn(g)
  \/ TickDay
SpecFrame == InitFrame /\ [][NextFrame]_vars

\* the document of the list: share links are generated for it while it is deleted
NextDocs ==
  \/ \E g \in Gens : generateShareLink(g)
  \/ \E g \in Gens : GenUpdate(g)
  \/ \E g \in Gens : GenReturn(g)
  \/ \E d \in Dels : deleteDocument(d)
  \/ \E d \in Dels : DelStorageReturn(d)
  \/ \E d \in Dels : DelRowReturn(d)
SpecDocs == InitShare /\ [][NextDocs]_vars

\* uploads and deletes of the uploaded documents
NextDelete ==
  \/ NextUpload
  \/ \E d \in Dels : deleteDocument(d)
  \/ \E d \in Dels : DelStorageReturn(d)
  \/ \E d \in Dels : DelRowReturn(d)
SpecDelete == Init /\ [][NextDelete]_vars

\* ------------------------------------------------ properties
\* the verdict {isSafe: true, warnings: []}
SafeVerdict == JObj(<<"isSafe", "warnings">>, <<JBool(TRUE), JArr(<<>>)>>)
FailOpen(body) == GetKey(body, "isSafe") = JBool(TRUE) /\ GetKey(body, "warnings") = JArr(<<>>)

\* the function was given a model reply that is text
GotReply ==
  /\ scanPc = "responded"
  /\ scanSent.sent
  /\ scanIn.gw.kind = "answer" /\ scanIn.gw.status = 200 /\ scanIn.gw.jsonOK
  /\ scanIn.gw.content.kind = "string"
ReplyText == scanIn.gw.content.toks

\* no "{" is followed by a "}"
NoSpan(t) == ~\E i, j \in 1..Len(t) : i < j /\ t[i] = "{" /\ t[j] = "}"
\* the span from the first "{" to the last "}" is not JSON
SpanFails(t) ==
  /\ ~NoSpan(t)
  /\ LET i == CHOOSE x \in 1..Len(t) : t[x] = "{" /\ \A y \in 1..(x - 1) : t[y] # "{"
         j == CHOOSE x \in 1..Len(t) : t[x] = "}" /\ \A y \in (x + 1)..Len(t) : t[y] # "}"
     IN ~JSONParse(SubSeq(t, i, j)).ok

\* C1: an upload attempt whose scan verdict has isSafe = false and a non-empty
\* warnings list issues no blob upload and no row insert
UnsafeWithWarnings(v) ==
  /\ GetKey(v, "isSafe") = JBool(FALSE)
  /\ GetKey(v, "warnings").kind = "arr"
  /\ Len(GetKey(v, "warnings").elems) > 0
C1_UnsafeNeverStored ==
  \A a \in Uploads :
    att[a].gotVerdict /\ UnsafeWithWarnings(att[a].scanResult)
      => /\ att[a].storageCalls = 0
         /\ att[a].insertCalls = 0
         /\ att[a].path \notin blobs
         /\ \A r \in rows : r.storage_path # att[a].path
C1_Witness ==
  \E a \in Uploads :
    /\ att[a].gotVerdict /\ UnsafeWithWarnings(att[a].scanResult)
    /\ att[a].pc = "done" /\ att[a].outcome = "blocked"
    /\ showWarning

\* C2: a model reply with no {...} span, or with a span that does not parse, is
\* answered with status 200 and exactly {isSafe: true, warnings: []}
C2_MalformedFailsOpen ==
  GotReply /\ (NoSpan(ReplyText) \/ SpanFails(ReplyText))
    => scanOut = [status |-> 200, hasBody |-> TRUE, body |-> SafeVerdict]
C2_Witness ==
  /\ GotReply /\ SpanFails(ReplyText)
  /\ scanOut = [status |-> 200, hasBody |-> TRUE, body |-> SafeVerdict]

\* C3: a JSON object with prose before and after it, braces in the prose
\* included, is returned as the verdict
C3_EmbeddedObjectExtracted ==
  \A pre \in ProseSeqs, post \in ProseSeqs, core \in ObjectTexts :
    GotReply /\ ReplyText = pre \o core \o post
      => scanOut.status = 200 /\ scanOut.body = JSONParse(core).val

\* C4: a scan request for an image type is answered with isSafe = true and no
\* warnings, whatever the model gateway replies
C4_ImageAlwaysSafe ==
  /\ scanPc = "responded"
  /\ scanIn.req.method = "POST" /\ scanIn.req.bodyOK /\ scanIn.req.hasFileType
  /\ scanIn.req.fileType[1] = "image"
  => FailOpen(scanOut.body)

\* C5 as claimed: a file whose type is not application/pdf, text/plain,
\* image/jpeg or image/png is rejected before any scan call, blob write or insert
Rejected(a) ==
  /\ att[a].pc = "done"
  /\ att[a].outcome \in {"invalid_type", "not_authenticated"}
  /\ att[a].scanCalls = 0 /\ att[a].storageCalls = 0 /\ att[a].insertCalls = 0
C5_FourTypes ==
  \A a \in Uploads :
    /\ att[a].pc # "idle"
    /\ att[a].file.type \notin {<<"application", "pdf">>, <<"text", "plain">>,
                                <<"image", "jpeg">>, <<"image", "png">>}
    => Rejected(a)
\* C5 as amended: a file whose type is not application/pdf, text/plain,
\* image/jpeg, image/jpg or image/png is rejected before any scan call, blob
\* write or insert
C5_FiveTypes ==
  \A a \in Uploads :
    /\ att[a].pc # "idle"
    /\ att[a].file.type \notin {<<"application", "pdf">>, <<"text", "plain">>,
                                <<"image", "jpeg">>, <<"image", "jpg">>, <<"image", "png">>}
    => Rejected(a)
C5_Witness ==
  \E a \in Uploads :
    /\ att[a].file.type = <<"image", "gif">> /\ att[a].outcome = "invalid_type"
    /\ att[a].file.size <= 10485760
    /\ user # "none"

\* C6: a file larger than 10 MiB is rejected before any scan call, blob write or
\* insert; a file of exactly 10 MiB is not rejected by the size check
C6_SizeLimit ==
  \A a \in Uploads :
    att[a].pc # "idle" =>
      /\ att[a].file.size > 10485760 =>
           /\ att[a].pc = "done"
           /\ att[a].outcome \in {"too_large", "invalid_type", "not_authenticated"}
           /\ att[a].scanCalls = 0 /\ att[a].storageCalls = 0 /\ att[a].insertCalls = 0
      /\ att[a].file.size = 10485760 => att[a].outcome # "too_large"
      /\ att[a].file.size = 10485760 /\ user # "none"
           /\ att[a].file.type \in {<<"text", "plain">>, <<"application", "pdf">>}
           => att[a].outcome \notin {"too_large", "invalid_type", "not_authenticated"}
C6_Witness ==
  \E a \in Uploads :
    /\ att[a].file.size = 10485761 /\ att[a].outcome = "too_large"
    /\ att[a].file.type = <<"text", "plain">>

\* C7: once two generations have written their tokens to one document's row, the
\* page shows the document only for the token written last; the other token
\* gets the unavailable state
Unavailable == share.pc = "done" /\ share.error # "" /\ share.document = NoRow
C7_OnlyLatestTokenResolves ==
  share.pc = "done" /\ share.token # 0 =>
    /\ share.replaced => Unavailable
    /\ share.document # NoRow => share.latest /\ ~share.replaced
C7_Witness ==
  /\ gen[1].outcome = "created" /\ gen[2].outcome = "created"
  /\ \E d \in DOMAIN hist : hist[d] = <<2, 1>>
  /\ share.token = 2 /\ share.replaced
  /\ Unavailable

\* C8: the page shows the document only if share_expires_at is strictly later
\* than the lookup time; at or after share_expires_at it shows the unavailable
\* state although the row exists
C8_StrictlyFuture ==
  share.pc = "done" /\ share.found =>
    /\ share.document # NoRow => ~share.late
    /\ share.late => Unavailable

\* C9: gateway status 429 is answered 429, 402 is answered 402, any other
\* failure 500, each with isSafe = true and warnings = [] in the body
C9_FailureStatuses ==
  scanPc = "responded" /\ scanIn.req.method = "POST" =>
    /\ scanSent.sent /\ scanIn.gw.kind = "answer" /\ scanIn.gw.status = 429
         => scanOut.status = 429 /\ FailOpen(scanOut.body)
    /\ scanSent.sent /\ scanIn.gw.kind = "answer" /\ scanIn.gw.status = 402
         => scanOut.status = 402 /\ FailOpen(scanOut.body)
    /\ \/ ~scanIn.req.bodyOK
       \/ ~scanIn.apiKey
       \/ scanSent.sent /\ scanIn.gw.kind = "throw"
       \/ scanSent.sent /\ scanIn.gw.kind = "answer" /\ scanIn.gw.status \in {500, 503}
       => scanOut.status = 500 /\ FailOpen(scanOut.body)
C9_Witness ==
  /\ scanPc = "responded" /\ scanSent.sent
  /\ scanIn.gw.kind = "answer" /\ scanIn.gw.status = 402
  /\ scanOut.status = 402 /\ FailOpen(scanOut.body)

\* C10: the body of every 200 answer to a scan request is an object with a
\* boolean isSafe and a list warnings
C10_NormalizedVerdict ==
  scanPc = "responded" /\ scanIn.req.method = "POST" /\ scanOut.status = 200 =>
    /\ scanOut.body.kind = "obj"
    /\ GetKey(scanOut.body, "isSafe").kind = "bool"
    /\ GetKey(scanOut.body, "warnings").kind = "arr"

\* C11: a token whose row is expired gets the same error state, message
\* included, as a token that matches no row
NotFoundView ==
  [view |-> "error", heading |-> "Link Unavailable",
   message |-> "Document not found or link has expired"]
C11_SameErrorState ==
  share.pc = "done" /\ share.token # 0 /\ share.document = NoRow
    => Render(share) = NotFoundView

\* C12: every row in the table was inserted by an upload attempt whose scan
\* verdict had isSafe = true
C12_RowsOnlyForSafeVerdicts ==
  \A r \in rows :
    \E a \in DOMAIN att :
      /\ att[a].insertCalls = 1 /\ att[a].path = r.storage_path
      /\ att[a].gotVerdict
      /\ GetKey(att[a].scanResult, "isSafe") = JBool(TRUE)

\* C13: the attempt is aborted with the warning modal showing the verdict's
\* warnings exactly when the verdict has isSafe = false and at least one
\* warning; with every other verdict the blob upload is issued
C13_GateIff ==
  \A a \in DOMAIN att :
    att[a].gotVerdict =>
      /\ att[a].outcome = "blocked" <=> UnsafeWithWarnings(att[a].scanResult)
      /\ att[a].outcome = "blocked" =>
           /\ att[a].storageCalls = 0
           /\ (\A b \in DOMAIN att : b # a => att[b].outcome # "blocked")
                => securityWarnings = GetKey(att[a].scanResult, "warnings")
      /\ ~UnsafeWithWarnings(att[a].scanResult) => att[a].storageCalls = 1

\* C14: when the scan invocation ends in a transport error (no response, or a
\* response with status 429, 402 or 500) the verdict is {isSafe: true,
\* warnings: []}, the blob upload is issued and the scan was called once
TransportError(a) == att[a].gotVerdict /\ att[a].scanStatus \in {0, 429, 402, 500}
C14_TransportErrorFailsOpen ==
  \A a \in DOMAIN att :
    /\ att[a].scanCalls <= 1
    /\ TransportError(a) =>
         /\ att[a].scanResult = SafeVerdict
         /\ att[a].scanCalls = 1
         /\ att[a].storageCalls = 1
         /\ att[a].pc \in {"upload", "insert", "done"}
         /\ att[a].outcome \notin {"blocked", "invalid_type", "too_large", "not_authenticated"}
C14_Witness ==
  \E a \in DOMAIN att :
    /\ att[a].scanStatus = 429 /\ att[a].scanResult = SafeVerdict
    /\ att[a].outcome = "complete"
    /\ \E r \in rows : r.storage_path = att[a].path

\* C15: a blob is written only by an attempt whose scan has returned, and a
\* row insert is issued only in the step in which the blob upload of the same
\* attempt succeeded; a row appears only while that attempt's insert is pending
C15_StepOrderStep ==
  /\ \A a \in DOMAIN att :
       /\ att'[a].storageCalls > att[a].storageCalls =>
            att[a].pc = "scan" /\ att'[a].gotVerdict /\ blobs' = blobs
       /\ att'[a].insertCalls > att[a].insertCalls =>
            /\ att[a].pc = "upload" /\ att[a].gotVerdict
            /\ att[a].path \notin blobs /\ att[a].path \in blobs'
       /\ att[a].pc = "upload" /\ att'[a].pc = "done" =>
            att'[a].insertCalls = 0 /\ rows' = rows /\ blobs' = blobs
  /\ blobs' # blobs =>
       \E a \in DOMAIN att :
         /\ att[a].pc = "upload" /\ att[a].gotVerdict /\ att[a].scanCalls = 1
         /\ blobs' = blobs \cup {att[a].path}
  /\ rows' # rows =>
       \E a \in DOMAIN att :
         /\ att[a].pc = "insert" /\ att[a].insertCalls = 1 /\ att[a].path \in blobs
         /\ \E r \in rows' : r \notin rows /\ r.storage_path = att[a].path
C15_StepOrder == [][C15_StepOrderStep]_vars
C15_Witness ==
  \E a \in DOMAIN att :
    /\ att[a].outcome = "complete" /\ att[a].gotVerdict
    /\ att[a].storageCalls = 1 /\ att[a].insertCalls = 1
    /\ att[a].path \in blobs
    /\ \E r \in rows : r.storage_path = att[a].path

\* C16: the row delete is sent only in the step in which the blob removal
\* succeeded; a blob removal that returns an error ends the operation with no
\* row delete sent and with the table and the blob store as they were
C16_DeleteOrderStep ==
  /\ \A d \in DOMAIN del :
       /\ del'[d].deleteCalls > del[d].deleteCalls =>
            /\ del[d].pc = "remove" /\ del[d].removeCalls = 1
            /\ del'[d].removed
            /\ del[d].doc.storage_path \notin blobs'
            /\ rows' = rows
       /\ del[d].pc = "remove" /\ del'[d].pc = "done" =>
            /\ del'[d].outcome = "failed" /\ del'[d].deleteCalls = 0
            /\ rows' = rows /\ blobs' = blobs
       /\ del'[d].pc = "done" /\ ~del'[d].removed => del'[d].deleteCalls = 0
  /\ {r.id : r \in rows} # {r.id : r \in rows'} =>
       \E d \in DOMAIN del :
         /\ del[d].pc = "delete" /\ del[d].removed
         /\ rows' = {r \in rows : r.id # del[d].doc.id}
         /\ blobs' = blobs
C16_DeleteOrder == [][C16_DeleteOrderStep]_vars
C16_Witness ==
  \E d \in DOMAIN del :
    /\ del[d].pc = "done" /\ del[d].outcome = "failed" /\ ~del[d].removed
    /\ del[d].deleteCalls = 0
    /\ del[d].doc.storage_path \in blobs
    /\ \E r \in rows : r.id = del[d].doc.id /\ r.storage_path = del[d].doc.storage_path

\* C17: when no delete is under way, every row of the table has its
\* storage_path in the blob store
C17_NoRowWithoutBlob ==
  (\A d \in DOMAIN del : del[d].pc \in {"idle", "done"})
    => \A r \in rows : r.storage_path \in blobs

\* C19: a generation mints a token no row holds and an expiry 24 hours after
\* the time of the call; its update gives exactly these two values to the row
\* with the id, whatever it held, and leaves the row's other fields, the other
\* rows and the blob store as they were
TokensInUse == {r.share_token : r \in rows} \cup {gen[g].shareToken : g \in DOMAIN gen}
C19_FrameStep ==
  \A g \in DOMAIN gen :
    /\ gen[g].pc = "idle" /\ gen'[g].pc = "update" =>
         /\ gen'[g].expiresAt = now + 24 * 60 * 60 * 1000
         /\ gen'[g].shareToken \notin TokensInUse
         /\ rows' = rows /\ blobs' = blobs
    /\ gen[g].pc = "update" /\ gen'[g].pc = "updated" =>
         /\ blobs' = blobs
         /\ {r.id : r \in rows'} = {r.id : r \in rows}
         /\ Cardinality(rows') = Cardinality(rows)
         /\ \A r \in rows : r.id # gen[g].docId => r \in rows'
         /\ \A r \in rows : r.id = gen[g].docId =>
              \E r2 \in rows' :
                /\ r2.id = r.id
                /\ r2.share_token = gen[g].shareToken
                /\ DateOf(r2.share_expires_at) = gen[g].expiresAt
                /\ r2.user_id = r.user_id /\ r2.file_name = r.file_name
                /\ r2.file_type = r.file_type /\ r2.file_size = r.file_size
                /\ r2.storage_path = r.storage_path /\ r2.created_at = r.created_at
                /\ r2.is_safe = r.is_safe
    /\ gen[g].pc = "update" /\ gen'[g].pc = "refused" => rows' = rows /\ blobs' = blobs
    /\ gen[g].pc \in {"updated", "refused"} /\ gen'[g].pc = "done" =>
         rows' = rows /\ blobs' = blobs
C19_GenerateFrame == [][C19_FrameStep]_vars
C19_Witness ==
  /\ hist[1] = <<1, 2>>
  /\ days = 0
  /\ \E r \in rows :
       /\ r.id = 1 /\ r.share_token = 2
       /\ DateOf(r.share_expires_at) = now + 24 * 60 * 60 * 1000
       /\ r.storage_path = <<"u1", 1, "a.txt">> /\ r.created_at = 1
  /\ \E r \in rows : r.id = 2 /\ r.share_token = 0 /\ r.share_expires_at = [day |-> -1, ms |-> 0]
  /\ blobs = {<<"u1", 1, "a.txt">>, <<"u1", 2, "a.txt">>}

\* C18: any two upload attempts that have issued their blob upload, overlapping
\* ones for the same user and file name included, did so for different paths
C18_UniquePaths ==
  \A a, b \in DOMAIN att :
    a # b /\ att[a].storageCalls = 1 /\ att[b].storageCalls = 1
      => att[a].path # att[b].path

\* C20: while an upload attempt that passed validation has not finished, the
\* scanning or the uploading flag is true (the file input is disabled)
InFlight(a) == att[a].pc \in {"read", "scan", "upload", "insert"}
C20_FlagsWhileInFlight ==
  (\E a \in DOMAIN att : InFlight(a)) => scanning \/ uploading

\* C21: when a generation reports success, the token it made is held by the
\* row of its document, so that the page's query finds that row and does not
\* find it expired before the expiry, unless a later generation has replaced
\* the token
ReplacedByLater(g) ==
  \E i \in 1..(Len(hist[gen[g].docId]) - 1) : hist[gen[g].docId][i] = gen[g].shareToken
C21_SuccessStep ==
  \A g \in DOMAIN gen :
    gen[g].pc = "updated" /\ gen'[g].pc = "done" /\ gen'[g].outcome = "created" =>
      \/ ReplacedByLater(g)
      \/ LET q == single(rows, gen[g].shareToken) IN
           /\ q.found /\ q.data.id = gen[g].docId
           /\ now < gen[g].expiresAt => ~isExpired(q.data.share_expires_at, now)
C21_SuccessHoldsToken == [][C21_SuccessStep]_vars

====
